---- MODULE Spec2Model ----
(***************************************************************************)
(* Mongoose knapsack projection, Source/Mongoose_QPNapsack.cpp.            *)
(*                                                                         *)
(* QPnapsack (x, n, lo, hi, Gw, Lambda, FreeSet_status, w, heap1, heap2)   *)
(* replaces x (holding y on entry) by proj (y - lambda*a) and returns the  *)
(* multiplier lambda.  The routine is modelled statement block by          *)
(* statement block; pc is the position inside the routine.                 *)
(*                                                                         *)
(* A Double is modelled by an exact rational <<num, den>> in lowest terms  *)
(* with den > 0, so that equal numbers are equal values.  Rounding of the  *)
(* binary floating point format is not modelled.                           *)
(***************************************************************************)
EXTENDS Integers, Sequences, FiniteSets, TLC

VARIABLES
    x,               \* Double *x: y on input, the solution on output
    n,               \* Int n: size of x
    lo, hi,          \* Double lo, hi: bounds of the constraint lo <= a'x <= hi
    Gw,              \* Double *Gw: nodal weights (the vector a), or NULL
    Lambda,          \* Double Lambda: the caller's initial guess
    FreeSet_status,  \* Int *FreeSet_status: +1, -1 or 0 per index, or NULL
    w, heap1, heap2, \* work arrays of size n, n+1, n+1
    lambda,          \* local Double lambda
    slope,           \* local Double slope
    pc,              \* position in QPnapsack
    nullpage,        \* what a read through a NULL Double* yields (<<>>: fault)
    entry,           \* the arrays as they were on entry
    l0,              \* the multiplier the initial slope was evaluated at
    branch,          \* the dispatch branch that was taken ("" before)
    calls,           \* the searches invoked so far, in order
    ret,             \* the values those searches returned, before the clamp
    ok               \* the flag computed by checkatx

vars == <<x, n, lo, hi, Gw, Lambda, FreeSet_status, w, heap1, heap2,
          lambda, slope, pc, nullpage, entry, l0, branch, calls, ret, ok>>

-----------------------------------------------------------------------------
(* Bounds of the model. *)

MaxN == 2
GridDen == 2

-----------------------------------------------------------------------------
(* Exact arithmetic on Doubles. *)

Abs(i) == IF i < 0 THEN -i ELSE i

RECURSIVE GCD(_, _)
GCD(p, q) == IF q = 0 THEN p ELSE GCD(q, p % q)

Rat(num, den) ==
    LET sn == IF den < 0 THEN -num ELSE num
        sd == Abs(den)
        g  == GCD(Abs(sn), sd)
    IN  <<sn \div g, sd \div g>>

Zero == <<0, 1>>
One  == <<1, 1>>

(* the operands are in lowest terms, so a zero or unit operand gives the   *)
(* other one as it stands                                                  *)
RAdd(p, q) ==
    IF q[1] = 0 THEN p
    ELSE IF p[1] = 0 THEN q
    ELSE Rat(p[1] * q[2] + q[1] * p[2], p[2] * q[2])
RSub(p, q) ==
    IF q[1] = 0 THEN p
    ELSE Rat(p[1] * q[2] - q[1] * p[2], p[2] * q[2])
RMul(p, q) ==
    IF p[1] = 0 \/ q[1] = 0 THEN Zero
    ELSE IF p = One THEN q
    ELSE IF q = One THEN p
    ELSE Rat(p[1] * q[1], p[2] * q[2])
RDiv(p, q) == Rat(p[1] * q[2], p[2] * q[1])
RLt(p, q)  == p[1] * q[2] < q[1] * p[2]
RLeq(p, q) == p[1] * q[2] <= q[1] * p[2]
RGt(p, q)  == RLt(q, p)
RGeq(p, q) == RLeq(q, p)

RECURSIVE RSum(_, _)
RSum(f, k) == IF k = 0 THEN Zero ELSE RAdd(RSum(f, k - 1), f[k])

MONGOOSE_MAX2(p, q) == IF RGt(p, q) THEN p ELSE q
MONGOOSE_MIN2(p, q) == IF RLt(p, q) THEN p ELSE q

NULL == <<>>

-----------------------------------------------------------------------------
(* x (lambda) = proj (y - lambda*a) and the slope a'x (lambda). *)

proj(z) == IF RLt(z, Zero) THEN Zero ELSE IF RGt(z, One) THEN One ELSE z

xlambda(y, a, l) == [k \in DOMAIN y |-> proj(RSub(y[k], RMul(a[k], l)))]

atx(a, v) == RSum([k \in DOMAIN v |-> RMul(a[k], v[k])], Len(v))

(* the accumulation of lines 162-174 and 209-221 *)
SlopeAt(y, a, l) ==
    RSum([k \in DOMAIN y |->
            LET xi == RSub(y[k], RMul(a[k], l))
            IN  IF RGeq(xi, One) THEN a[k]
                ELSE IF RGt(xi, Zero) THEN RMul(a[k], xi)
                ELSE Zero], Len(y))

-----------------------------------------------------------------------------
(* QPnapup and QPnapdown (Mongoose_QPNapUp.hpp, Mongoose_QPNapDown.hpp).    *)
(* They walk the break points, the values of lambda at which a component   *)
(* of y - lambda*a reaches 0 or 1, in one direction from the starting      *)
(* lambda until the slope a'x (lambda) crosses the target b, and return    *)
(* the lambda of the crossing.                                             *)

BreakPts(y, a) ==
    UNION {{RDiv(y[k], a[k]), RDiv(RSub(y[k], One), a[k])} : k \in DOMAIN y}

RMin(S) == CHOOSE m \in S : \A t \in S : RLeq(m, t)
RMax(S) == CHOOSE m \in S : \A t \in S : RGeq(m, t)

(* sum of a_k^2 over the free set { k : 0 < y_k - l*a_k < 1 } *)
FreeA2sum(y, a, l) ==
    RSum([k \in DOMAIN y |->
            LET xi == RSub(y[k], RMul(a[k], l))
            IN  IF RGt(xi, Zero) /\ RLt(xi, One) THEN RMul(a[k], a[k])
                ELSE Zero], Len(y))

Half == <<1, 2>>
Mid(p, q) == RMul(Half, RAdd(p, q))

(* the crossing above l, or <<>> when the slope never comes down to b *)
RECURSIVE NapUpWalk(_, _, _, _)
NapUpWalk(y, a, l, b) ==
    LET ahead == {t \in BreakPts(y, a) : RGt(t, l)}
    IN  IF ahead = {} THEN <<>>
        ELSE LET nb == RMin(ahead)
             IN  IF RLeq(SlopeAt(y, a, nb), b)
                 THEN <<RAdd(l, RDiv(RSub(SlopeAt(y, a, l), b),
                                      FreeA2sum(y, a, Mid(l, nb))))>>
                 ELSE NapUpWalk(y, a, nb, b)

(* the crossing below l, or <<>> when the slope never comes up to b *)
RECURSIVE NapDownWalk(_, _, _, _)
NapDownWalk(y, a, l, b) ==
    LET behind == {t \in BreakPts(y, a) : RLt(t, l)}
    IN  IF behind = {} THEN <<>>
        ELSE LET nb == RMax(behind)
             IN  IF RGeq(SlopeAt(y, a, nb), b)
                 THEN <<RSub(l, RDiv(RSub(b, SlopeAt(y, a, l)),
                                      FreeA2sum(y, a, Mid(l, nb))))>>
                 ELSE NapDownWalk(y, a, nb, b)

(* what a search may return when there is no crossing in its direction *)
Unspecified == {<<-1, 1>>, <<-1, 4>>, Zero, <<1, 2>>}

(* the possible return values of QPnapup (x, n, l, a, b, ...) *)
QPnapup(y, a, l, b) ==
    LET r == IF RGt(SlopeAt(y, a, l), b) THEN NapUpWalk(y, a, l, b) ELSE <<>>
    IN  IF r = <<>> THEN Unspecified ELSE {r[1]}

(* the possible return values of QPnapdown (x, n, l, a, b, ...) *)
QPnapdown(y, a, l, b) ==
    LET r == IF RLt(SlopeAt(y, a, l), b) THEN NapDownWalk(y, a, l, b) ELSE <<>>
    IN  IF r = <<>> THEN Unspecified ELSE {r[1]}

RootSearch(kind, y, a, l, b) ==
    IF kind = "QPnapup" THEN QPnapup(y, a, l, b) ELSE QPnapdown(y, a, l, b)

(* a search about which nothing is assumed *)
AnySearch(kind, y, a, l, b) == Unspecified

(* the possible return values of a search, trusted to find the crossing   *)
(* or not                                                                  *)
Search(trusted, kind, y, a, l, b) ==
    IF trusted THEN RootSearch(kind, y, a, l, b) ELSE AnySearch(kind, y, a, l, b)

(* the work arrays after a search: the break points and the index heaps *)
WorkW(y, a)     == [k \in DOMAIN y |-> RDiv(y[k], a[k])]
WorkHeap(y)     == [j \in 1..(Len(y) + 1) |-> IF j <= Len(y) THEN j ELSE 0]

-----------------------------------------------------------------------------
(* The inputs. *)

YVals == {<<-1, 2>>, <<1, 4>>, <<3, 4>>, <<3, 2>>}
AVals == {One, <<2, 1>>}
BVals == {<<-1, 1>>, One, <<3, 2>>}
LVals == {<<-1, 2>>, Zero, <<1, 2>>}
Status == {-1, 0, 1}

Vectors(m, T) == [1..m -> T]

(* the words a read through a NULL Double* finds when it does not fault *)
Garbage(m) == {[k \in 1..m |-> One], [k \in 1..m |-> <<2, 1>>]}

(* the napsack unit scenario of the specification *)
Scenario ==
    [n |-> 4, x |-> [k \in 1..4 |-> <<3, 5>>], Gw |-> [k \in 1..4 |-> One],
     lo |-> <<2, 1>>, hi |-> <<2, 1>>, Lambda |-> Zero,
     FreeSet_status |-> NULL, nullpage |-> NULL]

(* lo <= hi *)
Bounds == {c \in BVals \X BVals : RLeq(c[1], c[2])}

(* Index k of a call is the triple <<x [k], Gw [k], FreeSet_status [k]>>.  *)
(* Every loop of the routine is a sum over the indices or acts on each     *)
(* index alone, so the calls are enumerated up to a permutation of the     *)
(* indices: the triples of a call are taken in nondecreasing order.        *)
Triples(hasGw, hasFs) ==
    YVals \X (IF hasGw THEN AVals ELSE {One}) \X (IF hasFs THEN Status ELSE {0})

TripleLeq(c, d) ==
    \/ RLt(c[1], d[1])
    \/ c[1] = d[1] /\ RLt(c[2], d[2])
    \/ c[1] = d[1] /\ c[2] = d[2] /\ c[3] <= d[3]

Calls(m, hasGw, hasFs) ==
    {t \in Vectors(m, Triples(hasGw, hasFs)) :
        \A k \in 1..(m - 1) : TripleLeq(t[k], t[k + 1])}

(* the state on entry to QPnapsack, lambda initialised from Lambda (l.129) *)
Enter(in) ==
    /\ n = in.n
    /\ x = in.x
    /\ lo = in.lo
    /\ hi = in.hi
    /\ Gw = in.Gw
    /\ Lambda = in.Lambda
    /\ FreeSet_status = in.FreeSet_status
    /\ nullpage = in.nullpage
    /\ w = [k \in 1..in.n |-> Zero]
    /\ heap1 = [k \in 1..(in.n + 1) |-> 0]
    /\ heap2 = [k \in 1..(in.n + 1) |-> 0]
    /\ lambda = in.Lambda
    /\ slope = Zero
    /\ pc = "start"
    /\ entry = [x |-> in.x, Gw |-> in.Gw, FreeSet_status |-> in.FreeSet_status,
                w |-> [k \in 1..in.n |-> Zero],
                heap1 |-> [k \in 1..(in.n + 1) |-> 0],
                heap2 |-> [k \in 1..(in.n + 1) |-> 0]]
    /\ l0 = in.Lambda
    /\ branch = ""
    /\ calls = <<>>
    /\ ret = <<>>
    /\ ok = TRUE

Init ==
    \/ Enter(Scenario)
    \/ \E m \in 1..MaxN, hasGw \in BOOLEAN, hasFs \in BOOLEAN :
         \E t \in Calls(m, hasGw, hasFs), b \in Bounds, L \in LVals,
            np \in IF hasGw THEN {NULL} ELSE {NULL} \cup Garbage(m) :
            Enter([n |-> m,
                   x |-> [k \in 1..m |-> t[k][1]],
                   Gw |-> IF hasGw THEN [k \in 1..m |-> t[k][2]] ELSE NULL,
                   lo |-> b[1], hi |-> b[2], Lambda |-> L,
                   FreeSet_status |->
                       IF hasFs THEN [k \in 1..m |-> t[k][3]] ELSE NULL,
                   nullpage |-> np])

-----------------------------------------------------------------------------
(* QPnapsack. *)

(* the weights as the routine reads them *)
Read(a) == IF a = NULL THEN nullpage ELSE a

(* a read of a [k] faults *)
Faults(a) == a = NULL /\ nullpage = NULL

(* Guess with the bound of the other sign: -lo for lambda > 0 *)
Guess_BoundSwapped(y, a, fs, L, lamb) ==
    LET asum0 == IF RGt(lamb, Zero) THEN RSub(Zero, lo) ELSE RSub(Zero, hi)
        asum  == RAdd(asum0,
                   RSum([k \in DOMAIN y |->
                           IF fs[k] = 1 THEN a[k]
                           ELSE IF fs[k] = 0 THEN RMul(y[k], a[k])
                           ELSE Zero], Len(y)))
        a2sum == RSum([k \in DOMAIN y |->
                           IF fs[k] = 0 THEN RMul(a[k], a[k]) ELSE Zero], Len(y))
    IN  IF a2sum # Zero THEN RDiv(asum, a2sum) ELSE lamb

GuessReadsGw == \E k \in 1..n : FreeSet_status[k] \in {0, 1}

(* lines 136-156: the starting guess from the free set *)
Guess(y, a, fs, L, lamb) ==
    LET asum0 == IF RGt(lamb, Zero) THEN RSub(Zero, hi) ELSE RSub(Zero, lo)
        asum  == RAdd(asum0,
                   RSum([k \in DOMAIN y |->
                           IF fs[k] = 1 THEN a[k]
                           ELSE IF fs[k] = 0 THEN RMul(y[k], a[k])
                           ELSE Zero], Len(y)))
        a2sum == RSum([k \in DOMAIN y |->
                           IF fs[k] = 0 THEN RMul(a[k], a[k]) ELSE Zero], Len(y))
    IN  IF a2sum # Zero THEN RDiv(asum, a2sum) ELSE lamb

(* StartingGuess with "FreeSet_status[k] = 1" for "FreeSet_status[k] == 1" *)
StartingGuess_Assigns ==
    /\ pc = "start"
    /\ IF FreeSet_status # NULL /\ lambda # Zero
       THEN IF Faults(Gw)
            THEN pc' = "crashed" /\ UNCHANGED <<lambda, FreeSet_status>>
            ELSE /\ FreeSet_status' = [k \in 1..n |-> 1]
                 /\ lambda' = Guess(x, Read(Gw), FreeSet_status', Lambda, lambda)
                 /\ pc' = "slope"
       ELSE pc' = "slope" /\ UNCHANGED <<lambda, FreeSet_status>>
    /\ UNCHANGED <<x, n, lo, hi, Gw, Lambda, w, heap1, heap2,
                   slope, nullpage, entry, l0, branch, calls, ret, ok>>

StartingGuess ==
    /\ pc = "start"
    /\ IF FreeSet_status # NULL /\ lambda # Zero
       THEN IF GuessReadsGw /\ Faults(Gw)
            THEN pc' = "crashed" /\ UNCHANGED lambda
            ELSE /\ lambda' = IF GuessReadsGw
                              THEN Guess(x, Read(Gw), FreeSet_status, Lambda, lambda)
                              ELSE lambda
                 /\ pc' = "slope"
       ELSE pc' = "slope" /\ UNCHANGED lambda
    /\ UNCHANGED <<x, n, lo, hi, Gw, Lambda, FreeSet_status, w, heap1, heap2,
                   slope, nullpage, entry, l0, branch, calls, ret, ok>>

(* lines 162-174: the initial slope *)
InitialSlope ==
    /\ pc = "slope"
    /\ IF Faults(Gw)
       THEN pc' = "crashed" /\ UNCHANGED <<slope, l0>>
       ELSE /\ slope' = SlopeAt(x, Read(Gw), lambda)
            /\ l0' = lambda
            /\ pc' = "dispatch"
    /\ UNCHANGED <<x, n, lo, hi, Gw, Lambda, FreeSet_status, w, heap1, heap2,
                   lambda, nullpage, entry, branch, calls, ret, ok>>

(* Branch with "lambda > 0." for "lambda >= 0." in the test of case 1 *)
Branch_Case1StrictLambda(lamb, sl, s0) ==
    IF RGt(lamb, Zero) /\ RGeq(sl, hi)
    THEN IF RGt(sl, hi) THEN "1up" ELSE "1nothing"
    ELSE IF RLeq(lamb, Zero) /\ RLeq(sl, lo)
    THEN IF RLt(sl, lo) THEN "2down" ELSE "2nothing"
    ELSE IF lamb # Zero
    THEN IF RGeq(lamb, Zero) /\ RLt(sl, hi)
         THEN IF RLt(s0, lo) THEN "3a"
              ELSE IF RGt(s0, hi) THEN "3b"
              ELSE "3c"
         ELSE IF RGt(s0, hi) THEN "4a"
              ELSE IF RLt(s0, lo) THEN "4b"
              ELSE "4c"
    ELSE IF RLt(sl, hi)
         THEN IF RLt(sl, lo) THEN "3d" ELSE "3e"
         ELSE IF RGt(sl, hi) THEN "4d" ELSE "4e"

(* Branch with the test of case 1 inverted: slope < hi for slope > hi *)
Branch_Case1Inverted(lamb, sl, s0) ==
    IF RGeq(lamb, Zero) /\ RGeq(sl, hi)
    THEN IF RLt(sl, hi) THEN "1up" ELSE "1nothing"
    ELSE IF RLeq(lamb, Zero) /\ RLeq(sl, lo)
    THEN IF RLt(sl, lo) THEN "2down" ELSE "2nothing"
    ELSE IF lamb # Zero
    THEN IF RGeq(lamb, Zero) /\ RLt(sl, hi)
         THEN IF RLt(s0, lo) THEN "3a"
              ELSE IF RGt(s0, hi) THEN "3b"
              ELSE "3c"
         ELSE IF RGt(s0, hi) THEN "4a"
              ELSE IF RLt(s0, lo) THEN "4b"
              ELSE "4c"
    ELSE IF RLt(sl, hi)
         THEN IF RLt(sl, lo) THEN "3d" ELSE "3e"
         ELSE IF RGt(sl, hi) THEN "4d" ELSE "4e"

(* lines 179-295: which branch of the case discrimination is taken, given  *)
(* the starting lambda, the slope there and the slope s0 at lambda = 0     *)
Branch(lamb, sl, s0) ==
    IF RGeq(lamb, Zero) /\ RGeq(sl, hi)
    THEN IF RGt(sl, hi) THEN "1up" ELSE "1nothing"
    ELSE IF RLeq(lamb, Zero) /\ RLeq(sl, lo)
    THEN IF RLt(sl, lo) THEN "2down" ELSE "2nothing"
    ELSE IF lamb # Zero
    THEN IF RGeq(lamb, Zero) /\ RLt(sl, hi)
         THEN IF RLt(s0, lo) THEN "3a"
              ELSE IF RGt(s0, hi) THEN "3b"
              ELSE "3c"
         ELSE IF RGt(s0, hi) THEN "4a"
              ELSE IF RLt(s0, lo) THEN "4b"
              ELSE "4c"
    ELSE IF RLt(sl, hi)
         THEN IF RLt(sl, lo) THEN "3d" ELSE "3e"
         ELSE IF RGt(sl, hi) THEN "4d" ELSE "4e"

NoCall == [kind |-> "none", from |-> Zero, target |-> Zero]

(* SearchCall with branch 3b searching toward lo *)
SearchCall_3bTowardLo(br, lamb) ==
    CASE br = "1up" -> [kind |-> "QPnapup",   from |-> lamb, target |-> hi]
      [] br = "2down" -> [kind |-> "QPnapdown", from |-> lamb, target |-> lo]
      [] br = "3a" -> [kind |-> "QPnapdown", from |-> Zero, target |-> lo]
      [] br = "3b" -> [kind |-> "QPnapdown", from |-> lamb, target |-> lo]
      [] br = "4a" -> [kind |-> "QPnapup",   from |-> Zero, target |-> hi]
      [] br = "4b" -> [kind |-> "QPnapup",   from |-> lamb, target |-> lo]
      [] br = "3d" -> [kind |-> "QPnapdown", from |-> lamb, target |-> lo]
      [] br = "4d" -> [kind |-> "QPnapup",   from |-> lamb, target |-> hi]
      [] OTHER -> NoCall

(* SearchCall with case 1 searching toward lo *)
SearchCall_1TowardLo(br, lamb) ==
    CASE br = "1up" -> [kind |-> "QPnapup",   from |-> lamb, target |-> lo]
      [] br = "2down" -> [kind |-> "QPnapdown", from |-> lamb, target |-> lo]
      [] br = "3a" -> [kind |-> "QPnapdown", from |-> Zero, target |-> lo]
      [] br = "3b" -> [kind |-> "QPnapdown", from |-> lamb, target |-> hi]
      [] br = "4a" -> [kind |-> "QPnapup",   from |-> Zero, target |-> hi]
      [] br = "4b" -> [kind |-> "QPnapup",   from |-> lamb, target |-> lo]
      [] br = "3d" -> [kind |-> "QPnapdown", from |-> lamb, target |-> lo]
      [] br = "4d" -> [kind |-> "QPnapup",   from |-> lamb, target |-> hi]
      [] OTHER -> NoCall

(* SearchCall with branch 3a omitting "lambda = 0." before the search *)
SearchCall_3aFromLambda(br, lamb) ==
    CASE br = "1up" -> [kind |-> "QPnapup",   from |-> lamb, target |-> hi]
      [] br = "2down" -> [kind |-> "QPnapdown", from |-> lamb, target |-> lo]
      [] br = "3a" -> [kind |-> "QPnapdown", from |-> lamb, target |-> lo]
      [] br = "3b" -> [kind |-> "QPnapdown", from |-> lamb, target |-> hi]
      [] br = "4a" -> [kind |-> "QPnapup",   from |-> Zero, target |-> hi]
      [] br = "4b" -> [kind |-> "QPnapup",   from |-> lamb, target |-> lo]
      [] br = "3d" -> [kind |-> "QPnapdown", from |-> lamb, target |-> lo]
      [] br = "4d" -> [kind |-> "QPnapup",   from |-> lamb, target |-> hi]
      [] OTHER -> NoCall

(* SearchCall with QPnapup of case 4b toward hi *)
SearchCall_4bTowardHi(br, lamb) ==
    CASE br = "1up" -> [kind |-> "QPnapup",   from |-> lamb, target |-> hi]
      [] br = "2down" -> [kind |-> "QPnapdown", from |-> lamb, target |-> lo]
      [] br = "3a" -> [kind |-> "QPnapdown", from |-> Zero, target |-> lo]
      [] br = "3b" -> [kind |-> "QPnapdown", from |-> lamb, target |-> hi]
      [] br = "4a" -> [kind |-> "QPnapup",   from |-> Zero, target |-> hi]
      [] br = "4b" -> [kind |-> "QPnapup",   from |-> lamb, target |-> hi]
      [] br = "3d" -> [kind |-> "QPnapdown", from |-> lamb, target |-> lo]
      [] br = "4d" -> [kind |-> "QPnapup",   from |-> lamb, target |-> hi]
      [] OTHER -> NoCall

(* the search a branch invokes: which one, from where, toward which bound *)
SearchCall(br, lamb) ==
    CASE br = "1up" -> [kind |-> "QPnapup",   from |-> lamb, target |-> hi]
      [] br = "2down" -> [kind |-> "QPnapdown", from |-> lamb, target |-> lo]
      [] br = "3a" -> [kind |-> "QPnapdown", from |-> Zero, target |-> lo]
      [] br = "3b" -> [kind |-> "QPnapdown", from |-> lamb, target |-> hi]
      [] br = "4a" -> [kind |-> "QPnapup",   from |-> Zero, target |-> hi]
      [] br = "4b" -> [kind |-> "QPnapup",   from |-> lamb, target |-> lo]
      [] br = "3d" -> [kind |-> "QPnapdown", from |-> lamb, target |-> lo]
      [] br = "4d" -> [kind |-> "QPnapup",   from |-> lamb, target |-> hi]
      [] OTHER -> NoCall

(* Clamp with MONGOOSE_MIN2 for MONGOOSE_MAX2 in case 1 *)
Clamp_1Min(br, r) ==
    CASE br = "1up" -> MONGOOSE_MIN2(Zero, r)
      [] br = "2down" -> MONGOOSE_MIN2(r, Zero)
      [] br = "3a" -> IF RGt(r, Zero) THEN Zero ELSE r
      [] br = "3b" -> IF RLt(r, Zero) THEN Zero ELSE r
      [] br = "4a" -> MONGOOSE_MAX2(r, Zero)
      [] br = "4b" -> MONGOOSE_MIN2(Zero, r)
      [] br = "3d" -> MONGOOSE_MIN2(Zero, r)
      [] br = "4d" -> MONGOOSE_MAX2(r, Zero)

(* Clamp with the test of branch 3b reversed *)
Clamp_3bReversed(br, r) ==
    CASE br = "1up" -> MONGOOSE_MAX2(Zero, r)
      [] br = "2down" -> MONGOOSE_MIN2(r, Zero)
      [] br = "3a" -> IF RGt(r, Zero) THEN Zero ELSE r
      [] br = "3b" -> IF RGt(r, Zero) THEN Zero ELSE r
      [] br = "4a" -> MONGOOSE_MAX2(r, Zero)
      [] br = "4b" -> MONGOOSE_MIN2(Zero, r)
      [] br = "3d" -> MONGOOSE_MIN2(Zero, r)
      [] br = "4d" -> MONGOOSE_MAX2(r, Zero)

(* what a branch does to the value r its search returned *)
Clamp(br, r) ==
    CASE br = "1up" -> MONGOOSE_MAX2(Zero, r)
      [] br = "2down" -> MONGOOSE_MIN2(r, Zero)
      [] br = "3a" -> IF RGt(r, Zero) THEN Zero ELSE r
      [] br = "3b" -> IF RLt(r, Zero) THEN Zero ELSE r
      [] br = "4a" -> MONGOOSE_MAX2(r, Zero)
      [] br = "4b" -> MONGOOSE_MIN2(Zero, r)
      [] br = "3d" -> MONGOOSE_MIN2(Zero, r)
      [] br = "4d" -> MONGOOSE_MAX2(r, Zero)

(* NoSearch with "lambda = 0." left out of branches 3c and 4c *)
(* NoSearch without the "lambda = 0" of case 3c *)
NoSearch_3cKeepsLambda(br, lamb) == IF br = "4c" THEN Zero ELSE lamb

NoSearch_KeepsLambda(br, lamb) == lamb

(* lambda after a branch that invokes no search *)
NoSearch(br, lamb) == IF br \in {"3c", "4c"} THEN Zero ELSE lamb

Dispatch(trusted) ==
    /\ pc = "dispatch"
    /\ LET a    == Read(Gw)
           br   == Branch(lambda, slope, SlopeAt(x, a, Zero))
           call == SearchCall(br, lambda)
       IN  /\ branch' = br
           /\ IF call.kind # "none"
              THEN /\ \E r \in Search(trusted, call.kind, x, a, call.from, call.target) :
                        lambda' = Clamp(br, r) /\ ret' = Append(ret, r)
                   /\ calls' = Append(calls, call)
                   /\ w' = WorkW(x, a)
                   /\ heap1' = WorkHeap(x)
                   /\ heap2' = WorkHeap(x)
              ELSE /\ lambda' = NoSearch(br, lambda)
                   /\ UNCHANGED <<calls, ret, w, heap1, heap2>>
    /\ pc' = "replace"
    /\ UNCHANGED <<x, n, lo, hi, Gw, Lambda, FreeSet_status, slope, nullpage,
                   entry, l0, ok>>

(* lines 94-112: the flag ok of checkatx *)
Tolerance == <<1, 1000>>

checkatx(xv, a, m, l, h) ==
    LET ax == RSum([k \in 1..m |->
                      RMul(IF a = NULL THEN One ELSE a[k], xv[k])], m)
    IN  /\ \A k \in 1..m : ~RLt(xv[k], Zero) /\ ~RGt(xv[k], One)
        /\ ~RLt(ax, RSub(l, Tolerance))
        /\ ~RGt(ax, RAdd(h, Tolerance))

(* ReplaceX with the loop of the lambda == 0 path left out *)
ReplaceX_NoClipAtZero(y, a, lamb) ==
    IF lamb = Zero
    THEN y
    ELSE [k \in DOMAIN y |->
            LET xi == RSub(y[k], RMul(a[k], lamb))
            IN  IF RLt(xi, Zero) THEN Zero ELSE IF RGt(xi, One) THEN One ELSE xi]

(* lines 302-321: replace x by x (lambda), then checkatx; ASSERT (0) ends  *)
(* the run in a build with assertions and does nothing in one without      *)
ReplaceX(y, a, lamb) ==
    IF lamb = Zero
    THEN [k \in DOMAIN y |->
            IF RLt(y[k], Zero) THEN Zero ELSE IF RGt(y[k], One) THEN One ELSE y[k]]
    ELSE [k \in DOMAIN y |->
            LET xi == RSub(y[k], RMul(a[k], lamb))
            IN  IF RLt(xi, Zero) THEN Zero ELSE IF RGt(xi, One) THEN One ELSE xi]

Replace ==
    /\ pc = "replace"
    /\ x' = ReplaceX(x, Read(Gw), lambda)
    /\ ok' = checkatx(x', Gw, n, lo, hi)
    /\ pc' \in IF ok' THEN {"done"} ELSE {"done", "aborted"}
    /\ UNCHANGED <<n, lo, hi, Gw, Lambda, FreeSet_status, w, heap1, heap2,
                   lambda, slope, nullpage, entry, l0, branch, calls, ret>>

(* lines 129-156 as a function of a call with weights: the multiplier the *)
(* routine starts from                                                      *)
StartingLambda(y, a, fs, L) ==
    IF fs # NULL /\ L # Zero /\ (\E k \in DOMAIN y : fs[k] \in {0, 1})
    THEN Guess(y, a, fs, L, L)
    ELSE L

(* lines 162-294 as a function: the multipliers the routine can reach from *)
(* the starting multiplier lam0, the searches returning the crossing       *)
LambdaFrom(y, a, lam0) ==
    LET br   == Branch(lam0, SlopeAt(y, a, lam0), SlopeAt(y, a, Zero))
        call == SearchCall(br, lam0)
    IN  IF call.kind # "none"
        THEN {Clamp(br, r) :
                r \in Search(TRUE, call.kind, y, a, call.from, call.target)}
        ELSE {NoSearch(br, lam0)}

(* lines 162-321 as a function: the vectors x the routine can leave from   *)
(* the starting multiplier lam0                                            *)
XFrom(y, a, lam0) == {ReplaceX(y, a, lamb) : lamb \in LambdaFrom(y, a, lam0)}

(* lines 129-294 as a function of a call with weights *)
QPnapsackLambda(y, a, fs, L) == LambdaFrom(y, a, StartingLambda(y, a, fs, L))

(* lines 114-325 as a function of a call with weights: the vectors x the    *)
(* routine can leave                                                        *)
QPnapsack(y, a, fs, L) == XFrom(y, a, StartingLambda(y, a, fs, L))

-----------------------------------------------------------------------------

(* the searches return the crossing they are specified to find *)
DispatchRoot == Dispatch(TRUE)

(* the searches return anything *)
DispatchAny == Dispatch(FALSE)

Next == StartingGuess \/ InitialSlope \/ DispatchRoot \/ Replace

Spec == Init /\ [][Next]_vars

NextAny == StartingGuess \/ InitialSlope \/ DispatchAny \/ Replace

SpecAny == Init /\ [][NextAny]_vars

TypeOK ==
    /\ pc \in {"start", "slope", "dispatch", "replace", "done", "aborted", "crashed"}
    /\ Len(x) = n

-----------------------------------------------------------------------------
(* Vocabulary of the properties.  y is x as it was on entry; the weights   *)
(* a are Gw, an array of positive numbers.                                 *)

Returned == pc = "done"
Ended == pc \in {"done", "aborted"}
PastDispatch == pc \in {"replace", "done", "aborted"}
HasWeights == Gw # NULL

(* s (l) = a' clip (y - l*a, 0, 1) *)
S(l) == atx(Gw, xlambda(entry.x, Gw, l))

(* the constraint set { 0 <= x <= 1, lo <= a'x <= hi } is not empty *)
Feasible == RGeq(hi, Zero) /\ RLeq(lo, RSum(Gw, n))

InBox(v) == \A k \in DOMAIN v : RGeq(v[k], Zero) /\ RLeq(v[k], One)

Searched == calls # <<>>

-----------------------------------------------------------------------------
(* C1: when QPnapsack returns the multiplier lambda, x equals              *)
(* clip (y - lambda*a, 0, 1) in every component, on the lambda == 0 and    *)
(* the lambda != 0 exit path and after every dispatch branch, whatever     *)
(* the searches returned.                                                  *)
C1_XIsProjection ==
    (Returned /\ HasWeights) =>
        \A k \in 1..n :
            x[k] = proj(RSub(entry.x[k], RMul(Gw[k], lambda)))

(* a return with a nonzero multiplier after a search, x changed *)
C1_Witness ==
    /\ Returned /\ HasWeights /\ Searched
    /\ lambda # Zero
    /\ x # entry.x

(* C2: for a non-empty feasible set the x left behind satisfies            *)
(* 0 <= x_k <= 1 and lo - 0.001 <= a'x <= hi + 0.001, and the assertion of *)
(* checkatx does not fail, the searches returning the crossing.            *)
C2_CheckatxHolds ==
    (Ended /\ HasWeights /\ Feasible) =>
        /\ ok /\ pc = "done"
        /\ InBox(x)
        /\ RLeq(RSub(lo, Tolerance), atx(Gw, x))
        /\ RLeq(atx(Gw, x), RAdd(hi, Tolerance))

(* a feasible call that searched and moved x *)
C2_Witness ==
    /\ Returned /\ HasWeights /\ Feasible /\ Searched
    /\ ok
    /\ x # entry.x

(* C3: a returned lambda > 0 has s (lambda) = a'x = hi, a returned         *)
(* lambda < 0 has s (lambda) = a'x = lo (feasible inputs).                 *)
C3_Complementarity ==
    (Returned /\ HasWeights /\ Feasible) =>
        /\ RGt(lambda, Zero) => (S(lambda) = hi /\ atx(Gw, x) = hi)
        /\ RLt(lambda, Zero) => (S(lambda) = lo /\ atx(Gw, x) = lo)

(* a negative multiplier returned with lo < hi, so the two bounds differ *)
C3_Witness ==
    /\ Returned /\ HasWeights /\ Feasible /\ Searched
    /\ RLt(lambda, Zero)
    /\ RLt(lo, hi)

(* s (0) = a' clip (y, 0, 1) lies in [lo, hi] *)
ClippedFeasible == RLeq(lo, S(Zero)) /\ RLeq(S(Zero), hi)

(* the starting multiplier sits on a bound: l0 > 0 with s (l0) = hi, or    *)
(* l0 < 0 with s (l0) = lo                                                 *)
StartOnBound ==
    \/ RGt(l0, Zero) /\ S(l0) = hi
    \/ RLt(l0, Zero) /\ S(l0) = lo

(* C4 as stated: whenever lo <= s (0) <= hi, QPnapsack returns lambda = 0, *)
(* for every Lambda and FreeSet_status.                                    *)
C4_Original ==
    (Returned /\ HasWeights /\ ClippedFeasible) => lambda = Zero

(* C4 amended: whenever lo <= s (0) <= hi, QPnapsack returns lambda = 0,   *)
(* unless the starting multiplier l0 is positive with s (l0) = hi or       *)
(* negative with s (l0) = lo, in which case it returns l0; in both cases   *)
(* the x left behind is clip (y, 0, 1).                                    *)
C4_ZeroUnlessStartOnBound ==
    (Returned /\ HasWeights /\ ClippedFeasible) =>
        /\ lambda = IF StartOnBound THEN l0 ELSE Zero
        /\ x = xlambda(entry.x, Gw, Zero)

(* a nonzero starting multiplier discarded for lambda = 0 *)
C4_Witness ==
    /\ Returned /\ HasWeights /\ ClippedFeasible
    /\ l0 # Zero
    /\ lambda = Zero
    /\ x # entry.x

(* the candidates the returned x is compared with: the points of the box  *)
(* on a grid of step 1/GridDen that satisfy the constraint                *)
GridPoints(m) ==
    {z \in Vectors(m, {Rat(i, GridDen) : i \in 0..GridDen}) :
        LET az == atx(Gw, z) IN RLeq(lo, az) /\ RLeq(az, hi)}

(* ||u - v||^2 *)
Dist2(u, v) ==
    RSum([k \in DOMAIN u |-> RMul(RSub(u[k], v[k]), RSub(u[k], v[k]))], Len(u))

IsScenario ==
    /\ n = Scenario.n /\ entry.x = Scenario.x /\ Gw = Scenario.Gw
    /\ lo = Scenario.lo /\ hi = Scenario.hi /\ Lambda = Scenario.Lambda
    /\ FreeSet_status = NULL

(* C5: for y = [0.6 0.6 0.6 0.6], a = [1 1 1 1], lo = hi = 2, Lambda = 0   *)
(* and no FreeSet_status QPnapsack returns lambda = 0.1 and                *)
(* x = [0.5 0.5 0.5 0.5]; and for every feasible input the returned x is   *)
(* feasible and no feasible point is closer to y than it.                  *)
C5_ScenarioAndMinimizer ==
    /\ (Returned /\ IsScenario) =>
          /\ lambda = <<1, 10>>
          /\ x = [k \in 1..4 |-> <<1, 2>>]
    /\ (Returned /\ HasWeights /\ Feasible) =>
          /\ InBox(x) /\ RLeq(lo, atx(Gw, x)) /\ RLeq(atx(Gw, x), hi)
          /\ LET d == Dist2(x, entry.x)
             IN  \A z \in GridPoints(n) : RLeq(d, Dist2(z, entry.x))

(* the scenario has returned *)
C5_Witness == Returned /\ IsScenario /\ Searched /\ x # entry.x

Ones == [k \in 1..n |-> One]

PastSlope == pc \in {"dispatch", "replace", "done", "aborted"}

(* C6: with Gw NULL, QPnapsack behaves as if a were identically 1: the     *)
(* call completes normally, the initial slope is the one for a = 1 and x   *)
(* is replaced by clip (y - lambda*1, 0, 1).                               *)
C6_NullWeightsAsOnes ==
    (Gw = NULL) =>
        /\ pc # "crashed"
        /\ PastSlope => slope = SlopeAt(entry.x, Ones, l0)
        /\ Returned => x = xlambda(entry.x, Ones, lambda)

(* C7: on return FreeSet_status and Gw hold what they held on entry, with  *)
(* or without a starting guess and with or without a search.               *)
C7_InputsUnmodified ==
    Returned =>
        /\ FreeSet_status = entry.FreeSet_status
        /\ Gw = entry.Gw

(* a return after a starting guess and a search that changed x *)
C7_Witness ==
    /\ Returned /\ HasWeights /\ Searched
    /\ FreeSet_status # NULL
    /\ l0 # Lambda
    /\ x # entry.x

(* the search the case table of C8 prescribes for the starting multiplier  *)
(* l0, slope = s (l0) and s (0); <<>> when it prescribes none              *)
C8_Prescribed ==
    LET sl == S(l0)
        s0 == S(Zero)
    IN  IF RGeq(l0, Zero) /\ RGt(sl, hi)
        THEN <<[kind |-> "QPnapup", from |-> l0, target |-> hi]>>
        ELSE IF RLeq(l0, Zero) /\ RLt(sl, lo)
        THEN <<[kind |-> "QPnapdown", from |-> l0, target |-> lo]>>
        ELSE IF RGt(l0, Zero) /\ RLt(sl, hi)
        THEN IF RLt(s0, lo)
             THEN <<[kind |-> "QPnapdown", from |-> Zero, target |-> lo]>>
             ELSE IF RGt(s0, hi)
             THEN <<[kind |-> "QPnapdown", from |-> l0, target |-> hi]>>
             ELSE <<>>
        ELSE IF RLt(l0, Zero) /\ RGt(sl, lo)
        THEN IF RGt(s0, hi)
             THEN <<[kind |-> "QPnapup", from |-> Zero, target |-> hi]>>
             ELSE IF RLt(s0, lo)
             THEN <<[kind |-> "QPnapup", from |-> l0, target |-> lo]>>
             ELSE <<>>
        ELSE <<>>

(* cases 3 and 4 of the table: l0 > 0 below hi, or l0 < 0 above lo *)
C8_Case34 ==
    \/ RGt(l0, Zero) /\ RLt(S(l0), hi)
    \/ RLt(l0, Zero) /\ RGt(S(l0), lo)

(* C8: QPnapsack invokes at most one search, the one the case table        *)
(* prescribes, from the prescribed starting point toward the prescribed    *)
(* bound; in cases 3 and 4 without a search lambda is set to 0; and in the *)
(* remaining situations no search is invoked and w, heap1, heap2 are left  *)
(* untouched.                                                              *)
C8_CaseDispatch ==
    (PastDispatch /\ HasWeights) =>
        /\ Len(calls) <= 1
        /\ calls = C8_Prescribed
        /\ calls = <<>> =>
              IF C8_Case34
              THEN lambda = Zero
              ELSE w = entry.w /\ heap1 = entry.heap1 /\ heap2 = entry.heap2

(* case 3b: QPnapdown from a positive l0 toward hi *)
C8_Witness ==
    /\ PastDispatch /\ HasWeights
    /\ RGt(l0, Zero)
    /\ calls = <<[kind |-> "QPnapdown", from |-> l0, target |-> hi]>>
    /\ RLt(lo, hi)

(* C9: after a search toward hi (branches 1, 3b, 4a, 4d) the multiplier    *)
(* QPnapsack returns is >= 0 and after a search toward lo (branches 2, 3a, *)
(* 3d, 4b) it is <= 0, whatever the search returned.                       *)
C9_SignClamp ==
    PastDispatch =>
        /\ branch \in {"1up", "3b", "4a", "4d"} => RGeq(lambda, Zero)
        /\ branch \in {"2down", "3a", "3d", "4b"} => RLeq(lambda, Zero)
        /\ (Searched /\ RLt(lo, hi) /\ calls[1].target = hi) => RGeq(lambda, Zero)
        /\ (Searched /\ RLt(lo, hi) /\ calls[1].target = lo) => RLeq(lambda, Zero)

(* branch 3b, the search returned a negative value, which was clamped *)
C9_Witness ==
    /\ PastDispatch
    /\ branch = "3b"
    /\ RLt(ret[1], Zero)
    /\ lambda = Zero

(* FreeSet_status is supplied and marks an index as free *)
HasFree == FreeSet_status # NULL /\ \E k \in 1..n : FreeSet_status[k] = 0

(* (sum_{status=+1} a_k + sum_{status=0} a_k*y_k - b) / sum_{status=0} a_k^2 *)
ZeroSlopeEstimate(b) ==
    LET ones  == {k \in 1..n : FreeSet_status[k] = 1}
        free  == {k \in 1..n : FreeSet_status[k] = 0}
        term(k) == IF k \in ones THEN Gw[k]
                   ELSE IF k \in free THEN RMul(Gw[k], entry.x[k])
                   ELSE Zero
        sq(k)   == IF k \in free THEN RMul(Gw[k], Gw[k]) ELSE Zero
    IN  RDiv(RSub(RSum([k \in 1..n |-> term(k)], n), b),
             RSum([k \in 1..n |-> sq(k)], n))

(* C10 as stated: whenever FreeSet_status is supplied and marks an index   *)
(* as free the initial slope is evaluated at the zero-slope estimate, with *)
(* b = hi if Lambda > 0 and b = lo otherwise; else at Lambda.              *)
C10_Original ==
    (PastSlope /\ HasWeights) =>
        l0 = IF HasFree
             THEN ZeroSlopeEstimate(IF RGt(Lambda, Zero) THEN hi ELSE lo)
             ELSE Lambda

(* C10 amended: whenever FreeSet_status is supplied, marks an index as     *)
(* free and the caller's Lambda is not 0, the initial slope is evaluated   *)
(* at the zero-slope estimate, with b = hi if Lambda > 0 and b = lo if     *)
(* Lambda < 0; when FreeSet_status is NULL, or no index is free, or        *)
(* Lambda = 0, it is evaluated at Lambda.                                  *)
C10_GuessUnlessLambdaZero ==
    (PastSlope /\ HasWeights) =>
        l0 = IF HasFree /\ Lambda # Zero
             THEN ZeroSlopeEstimate(IF RGt(Lambda, Zero) THEN hi ELSE lo)
             ELSE Lambda

(* the estimate replaced a positive Lambda, some index marked +1 *)
C10_Witness ==
    /\ PastSlope /\ HasWeights /\ HasFree
    /\ RGt(Lambda, Zero)
    /\ \E k \in 1..n : FreeSet_status[k] = 1
    /\ l0 # Lambda
    /\ RLt(lo, hi)

(* the cases of the header by the starting multiplier and the slopes *)
Case1  == RGeq(l0, Zero) /\ RGeq(S(l0), hi)
Case2  == ~Case1 /\ RLeq(l0, Zero) /\ RLeq(S(l0), lo)
Case3b == RGt(l0, Zero) /\ RLt(S(l0), hi) /\ RGt(S(Zero), hi)
Case4b == RLt(l0, Zero) /\ RGt(S(l0), lo) /\ RLt(S(Zero), lo)

(* every search of the call returned a root of s (l) = target *)
RootReturned == \A i \in DOMAIN calls : S(ret[i]) = calls[i].target

(* C11: when the searches return a root of s (l) = target, the multiplier  *)
(* returned is >= l0 in case 1 and <= l0 in case 2; in case 3b it lies     *)
(* strictly between 0 and l0 and in case 4b strictly between l0 and 0, so  *)
(* that the clamps of 3b and 4b leave the value the search returned.       *)
C11_Bracketing ==
    (PastDispatch /\ HasWeights /\ RootReturned) =>
        /\ Case1 => RGeq(lambda, l0)
        /\ Case2 => RLeq(lambda, l0)
        /\ Case3b => /\ RGt(lambda, Zero) /\ RLt(lambda, l0)
                     /\ ret = <<lambda>>
        /\ Case4b => /\ RGt(lambda, l0) /\ RLt(lambda, Zero)
                     /\ ret = <<lambda>>

(* case 4b: QPnapup from a negative l0 found the crossing of lo below 0 *)
C11_Witness ==
    /\ PastDispatch /\ HasWeights
    /\ Case4b
    /\ branch = "4b"
    /\ RootReturned
    /\ ret = <<lambda>>
    /\ RLt(lambda, Zero)

(* C12: for a > 0 and feasible lo <= hi the x returned is the x that the   *)
(* call with the same y, a, lo and hi and with Lambda = 0 and no           *)
(* FreeSet_status returns, whatever Lambda and FreeSet_status the caller    *)
(* passed: any two calls that differ only in these return the same x.      *)
C12_GuessIndependent ==
    (Returned /\ HasWeights /\ Feasible) =>
        QPnapsack(entry.x, Gw, NULL, Zero) = {x}

(* a call whose guess takes it through another branch to another           *)
(* multiplier than the call from 0, and that moved x                       *)
C12_Witness ==
    /\ Returned /\ HasWeights /\ Feasible
    /\ FreeSet_status # NULL
    /\ l0 # Lambda
    /\ branch # Branch(Zero, S(Zero), S(Zero))
    /\ lambda \notin QPnapsackLambda(entry.x, Gw, NULL, Zero)
    /\ x # entry.x

(* the calls a caller can make again on a vector of n components *)
Guesses == {NULL} \cup Vectors(n, Status)

(* the multipliers a second call on x can start from *)
SecondStarts == {StartingLambda(x, Gw, fs, L) : L \in LVals, fs \in Guesses}

(* C13: for a > 0 and feasible lo <= hi, QPnapsack applied to the x it     *)
(* returned, with the same a, lo and hi and any Lambda and FreeSet_status, *)
(* returns that x; and a y with 0 <= y <= 1 and lo <= a'y <= hi is         *)
(* returned unchanged.                                                     *)
C13_Idempotent ==
    (Returned /\ HasWeights /\ Feasible) =>
        /\ \A lam0 \in SecondStarts : XFrom(x, Gw, lam0) = {x}
        /\ (InBox(entry.x) /\ ClippedFeasible) => x = entry.x

(* a call that moved y, and whose x a second call from a nonzero Lambda    *)
(* and a free set that changes the guess leaves where it is                *)
C13_Witness ==
    /\ Returned /\ HasWeights /\ Feasible
    /\ x # entry.x
    /\ \E L \in LVals \ {Zero}, fs \in Vectors(n, Status) :
          /\ Guess(x, Gw, fs, L, L) # L
          /\ Zero \notin QPnapsackLambda(x, Gw, fs, L)
          /\ QPnapsack(x, Gw, fs, L) = {x}

(* the branches of the tests of case 1 and of case 2, and the branches of  *)
(* the final "lambda == 0" block that the header does not list             *)
TakenByCase1 == branch \in {"1up", "1nothing"}
TakenByCase2 == branch \in {"2down", "2nothing"}
Unlisted     == {"3d", "4d", "4e"}

(* C14 as stated: from the starting multiplier 0, slope >= hi is taken by  *)
(* case 1 and slope <= lo by case 2, and 3d, 4d and 4e are never taken.    *)
C14_Original ==
    (PastDispatch /\ HasWeights /\ l0 = Zero) =>
        /\ RGeq(slope, hi) => TakenByCase1
        /\ RLeq(slope, lo) => TakenByCase2
        /\ branch \notin Unlisted

(* C14: from the starting multiplier 0, slope >= hi is taken by the test   *)
(* of case 1 and slope <= lo with slope < hi by the test of case 2 (a      *)
(* slope equal to lo = hi is taken by case 1); the "lambda == 0" block is  *)
(* entered only with lo < slope < hi, which is branch 3e, and 3d, 4d and   *)
(* 4e are taken by no call.                                                *)
C14_OnlyBranch3e ==
    PastDispatch =>
        /\ branch \notin Unlisted
        /\ branch = "3e" <=> (l0 = Zero /\ RLt(lo, slope) /\ RLt(slope, hi))
        /\ l0 = Zero =>
              /\ RGeq(slope, hi) => TakenByCase1
              /\ (RLeq(slope, lo) /\ RLt(slope, hi)) => TakenByCase2

(* branch 3e taken: the block entered from the multiplier 0 *)
C14_Witness ==
    /\ PastDispatch /\ HasWeights
    /\ l0 = Zero
    /\ branch = "3e"
    /\ RLt(lo, slope) /\ RLt(slope, hi)
    /\ lambda = Zero

====
